---- MODULE Spec2Model ----
(***************************************************************************)
(* Model of scripts/autopkg_tools.py: main() fans the recipes out with     *)
(* asyncio.gather, and every process_recipe coroutine acquires a git       *)
(* worktree, awaits the recipe run, and stages, commits, pushes and opens  *)
(* a pull request before the worktree is released.                         *)
(*                                                                         *)
(* The asyncio event loop is modelled as it schedules: a FIFO of ready     *)
(* handles (task steps, gather's done callbacks, main's wakeup), one       *)
(* handle running at a time (cur), a coroutine giving the loop back only   *)
(* at an await.  The git, GitHub and recipe-run calls are the environment: *)
(* each may succeed or raise.  `git worktree remove --force` and           *)
(* `git worktree prune`, run on a worktree the unit itself registered, are *)
(* taken to succeed.                                                       *)
(***************************************************************************)
EXTENDS Integers, Sequences, FiniteSets, TLC

\* Bounds of the model.
NumRecipes == 2
MaxItems == 2

\* Recipe file stems (Path.stem), as character sequences.
StemSet == {<<"a", " ", "b">>, <<"c">>}

VARIABLES
    recipe_paths,   \* main: the stems of the resolved recipe paths, in list order
    now,            \* the UTC clock, in seconds
    mainpc,         \* position of main() / asyncio.run
    outer,          \* gather's outer future: "pending", "result", "exc"
    nfinished,      \* gather's count of children finished without exception
    ready,          \* the event loop's FIFO of ready handles
    cur,            \* the task whose step is running (0: the loop is idle)
    pc,             \* position of each process_recipe coroutine
    branch,         \* process_recipe: branch
    worktree_path,  \* process_recipe: worktree_path
    execst,         \* the awaited Recipe.run(): idle, running, finished (its
                    \* result not read yet), ok, raise, cancelled
    hasItems,       \* results["munki_imported_items"] is not empty (line 68)
    tostage,        \* items the staging loop (line 74) has still to add (0 when
                    \* the loop is not running)
    staged,         \* wt_repo.index.add was called for some item
    madeHead,       \* create_head created a new branch ref for the unit
    cancelReq,      \* Task.cancel() was called on the task
    exc,            \* exception in flight while the unit unwinds
    result,         \* how the task ended: none/ok/exc/cancelled
    acquired,       \* worktree() reached its yield for the unit
    released,       \* number of completed releases (remove, then prune) of the unit
    branches,       \* branch refs of the base repository created by this batch
    worktrees,      \* worktrees registered in the base repository: [path, branch]
    commits,        \* number of commits made by the unit
    pushes,         \* number of pushes made by the unit
    pulls,          \* number of pull requests opened by the unit
    munki_repo,     \* munki_repo of each AutoPkgPrefs object: 0 is the shared
                    \* autopkg_prefs of main, i the clone made by unit i
    completed,      \* units whose Recipe.run() has completed and whose wakeup
                    \* has not run yet, in completion order
    exitcode        \* process exit status (-1 while running)

\* lambopkg/tools/run.py: main() and run_recipes().
VARIABLES
    rpc,            \* position of run.py ("idle": not running)
    nrecipes,       \* len(recipes) after the selection of lines 186-194
    recipe_arg,     \* args.recipe was given
    dry_run,        \* args.dry_run
    fail_fast,      \* args.fail_fast
    idx,            \* run_recipes: i, the recipe the loop is at
    succeeded,      \* run_recipes: succeeded
    failedCount,    \* run_recipes: failed
    failures,       \* run_recipes: failures (the recipes, by their place in
                    \* the list)
    ran,            \* the recipes handed to `autopkg run`, in order
    checks,         \* run_recipes: per iteration, i and the value of `before`
    cwd,            \* the working directory of the process
    returned,       \* how run_recipes ended: pending, tuple, raised
    status          \* exit status of run.py (-1 while running)

\* tools/orchestrate.py: process_url().
VARIABLES
    opc,            \* position of process_url ("idle": not running)
    scripts,        \* the scripts started by run_script, in order
    lines,          \* the output lines of the generate step
    gen_ret,        \* exit status of the generate step (-1: not finished)
    run_ret,        \* exit status of the run step
    override_ret,   \* exit status of the override step
    url_ok          \* what process_url returned: pending, True, False

\* tools/orchestrate.py: main(); tools/lib/generate.py: process_urls() with
\* the dependency recursion, and the GitHubAPI tree cache.
VARIABLES
    omain,          \* main of orchestrate.py: its locals and its exit status
    gen,            \* process_urls: processed, stats, the call stack
    api             \* GitHubAPI: the caches and the API calls made

runpyVars == <<rpc, nrecipes, recipe_arg, dry_run, fail_fast, idx, succeeded,
               failedCount, failures, ran, checks, cwd, returned, status>>
orchVars == <<opc, scripts, lines, gen_ret, run_ret, override_ret, url_ok>>
moreVars == <<omain, gen, api>>
toolVars == <<runpyVars, orchVars, moreVars>>

batchVars == <<recipe_paths, now, mainpc, outer, nfinished, ready, cur, pc,
               branch, worktree_path, execst, hasItems, tostage, staged, madeHead,
               cancelReq, exc, result, acquired, released, branches, worktrees,
               commits, pushes, pulls, munki_repo, completed, exitcode>>

vars == <<batchVars, toolVars>>

\* Groups of variables, for the UNCHANGED clauses.
mainVars == <<mainpc, outer, nfinished, exitcode>>
nameVars == <<now, branch, worktree_path, munki_repo>>
runVars == <<execst, hasItems, completed>>
pubVars == <<tostage, staged, commits, pushes, pulls>>
repoVars == <<branches, worktrees>>
heldVars == <<madeHead, acquired, released>>
taskVars == <<pc, exc, result, ready, cur>>

Units == 1..Len(recipe_paths)

NoName == <<>>

\* str.replace(' ', '-') on the stem.
ReplaceSpaces(s) == [k \in 1..Len(s) |-> IF s[k] = " " THEN "-" ELSE s[k]]

\* f"autopkg/{recipe_name.replace(' ', '-')}-{now:%Y%m%d%H%M%S}"
BranchName(stem, t) == <<"autopkg/", ReplaceSpaces(stem), "-", t>>

\* git_repo_root.parent / f"worktree-{recipe_name}-{now:%Y%m%d%H%M%S}"
WorktreePath(stem, t) == <<"worktree-", stem, "-", t>>

\* main, lines 123-127: the munki_repo of the shared preferences, and the
\* directory name taken from it.
DefaultMunkiRepo == <<"munkirepo">>
munki_subdir == "munkirepo"

\* Line 53: worktree_path / munki_subdir.
MunkiRepoPath(wt) == <<wt, munki_subdir>>

\* Line 52: autopkg_prefs.clone() gives unit i a preferences object of its own.
clone_shared(i) == 0
clone(i) == i

StepHandle(i) == [kind |-> "step", id |-> i]
GatherHandle(i) == [kind |-> "gathercb", id |-> i]
MainHandle == [kind |-> "main", id |-> 0]
StopHandle == [kind |-> "stop", id |-> 0]

\* loop.call_soon: the handle joins the end of the ready queue.
call_soon_lifo(q, h) == <<h>> \o q
call_soon(q, h) == Append(q, h)

\* The only suspension point of process_recipe is the await of Recipe.run().
SuspendsAtPush(p) == p \in {"await_run", "push"}
Suspends(p) == p = "await_run"

\* The worktree() context manager's finally: the release runs whatever
\* exception e leaves the with-body.
RunsFinallyOnReturnOnly(e) == e = "none"
RunsFinally(e) == TRUE

\* Lines 59-70: where the coroutine goes when the await of Recipe.run() ends,
\* and with which exception in flight.  CancelledError is not an Exception, so
\* the except clause does not catch it.
AfterRunUncaught(st, k, cancelled) ==
    IF cancelled THEN [pc |-> "exit", exc |-> "cancelled"]
    ELSE IF st = "raise" THEN [pc |-> "exit", exc |-> "error"]
    ELSE IF k = 0 THEN [pc |-> "exit", exc |-> "none"]
    ELSE [pc |-> "stage", exc |-> "none"]
AfterRunNoEmptyCheck(st, k, cancelled) ==
    IF cancelled THEN [pc |-> "exit", exc |-> "cancelled"]
    ELSE IF st = "raise" THEN [pc |-> "exit", exc |-> "none"]
    ELSE [pc |-> "stage", exc |-> "none"]
AfterRun(st, k, cancelled) ==
    IF cancelled THEN [pc |-> "exit", exc |-> "cancelled"]
    ELSE IF st = "raise" THEN [pc |-> "exit", exc |-> "none"]
    ELSE IF k = 0 THEN [pc |-> "exit", exc |-> "none"]
    ELSE [pc |-> "stage", exc |-> "none"]

\* Lines 72-98: the order of the publication steps.  After the staging loop
\* comes the commit, after the commit the push, after the push the pull
\* request.
NextStepSkipsPush(p) ==
    IF p = "stage" THEN "commit" ELSE "create_pull"
NextStep(p) ==
    IF p = "stage" THEN "commit"
    ELSE IF p = "commit" THEN "push"
    ELSE "create_pull"

\* Lines 83-84 and 94: the name and the version of the first imported item
\* make the commit message and the title of the pull request.  Every run of
\* the model that imports items imports this name and this version, so any
\* two publications of a batch carry the same title.
ItemName == "App"
ItemVersion == "1.0"
PullTitle(name, version) == <<"AutoPkg: ", name, " ", version>>

\* Line 93: create_pull is called whatever pull requests the batch has opened
\* already (open: their titles).
SkipsDuplicateTitle(title, open) == title \notin open
OpensPull(title, open) == TRUE

TaskResult(e) ==
    IF e = "none" THEN "ok" ELSE IF e = "cancelled" THEN "cancelled" ELSE "exc"

\* The scripts that are not running.
RunIdle ==
    /\ rpc = "idle"
    /\ nrecipes = 0 /\ recipe_arg = FALSE /\ dry_run = FALSE /\ fail_fast = FALSE
    /\ idx = 0 /\ succeeded = 0 /\ failedCount = 0 /\ ran = <<>>
    /\ failures = <<>> /\ checks = <<>>
    /\ cwd = "original_dir" /\ returned = "pending" /\ status = -1
OrchIdle ==
    /\ opc = "idle"
    /\ scripts = <<>> /\ lines = <<>>
    /\ gen_ret = -1 /\ run_ret = -1 /\ override_ret = -1
    /\ url_ok = "pending"

MoreIdle ==
    /\ omain = [pc |-> "idle"]
    /\ gen = [pc |-> "idle"]
    /\ api = [pc |-> "idle"]

Init ==
    /\ RunIdle /\ OrchIdle /\ MoreIdle
    /\ recipe_paths \in UNION {[1..k -> StemSet] : k \in 0..NumRecipes}
    /\ now = 0
    /\ mainpc = "start"
    /\ outer = "pending"
    /\ nfinished = 0
    /\ ready = <<>>
    /\ cur = 0
    /\ pc = [i \in Units |-> "new"]
    /\ branch = [i \in Units |-> NoName]
    /\ worktree_path = [i \in Units |-> NoName]
    /\ execst = [i \in Units |-> "idle"]
    /\ hasItems = [i \in Units |-> FALSE]
    /\ tostage = [i \in Units |-> 0]
    /\ staged = [i \in Units |-> FALSE]
    /\ madeHead = [i \in Units |-> FALSE]
    /\ cancelReq = [i \in Units |-> FALSE]
    /\ exc = [i \in Units |-> "none"]
    /\ result = [i \in Units |-> "none"]
    /\ acquired = [i \in Units |-> FALSE]
    /\ released = [i \in Units |-> 0]
    /\ branches = {}
    /\ worktrees = {}
    /\ commits = [i \in Units |-> 0]
    /\ pushes = [i \in Units |-> 0]
    /\ pulls = [i \in Units |-> 0]
    /\ munki_repo = [o \in 0..Len(recipe_paths) |-> DefaultMunkiRepo]
    /\ completed = <<>>
    /\ exitcode = -1

\* The loop runs handles while main's gather is pending, after main raised
\* until the loop is stopped, to the end of the iteration that stops it, and
\* again while asyncio.run waits for the cancelled tasks.
LoopRunning == mainpc \in {"gathering", "raised", "stopping", "draining"}

\* The task ends: its result is set and its done callback (gather's) is
\* scheduled.
TaskDone(i, e, q) ==
    /\ pc' = [pc EXCEPT ![i] = "done"]
    /\ exc' = [exc EXCEPT ![i] = e]
    /\ result' = [result EXCEPT ![i] = TaskResult(e)]
    /\ ready' = call_soon(q, GatherHandle(i))
    /\ cur' = 0

\* The with-body of worktree() is left with exception e ("none": a return or
\* the end of the body).
Exit(i, e, q) ==
    IF RunsFinally(e)
    THEN /\ pc' = [pc EXCEPT ![i] = "remove"]
         /\ exc' = [exc EXCEPT ![i] = e]
         /\ cur' = i
         /\ ready' = q
         /\ UNCHANGED result
    ELSE TaskDone(i, e, q)

\* The coroutine moves on to position p inside the with-body.
Goto(i, p, q) ==
    /\ pc' = [pc EXCEPT ![i] = p]
    /\ cur' = IF Suspends(p) THEN 0 ELSE i
    /\ ready' = IF Suspends(p) /\ p # "await_run"
                THEN call_soon(q, StepHandle(i)) ELSE q
    /\ UNCHANGED <<exc, result>>

\* main() with a gather that suspends even when there is nothing to wait for.
MainGatherAlwaysWaits ==
    /\ mainpc = "start"
    /\ outer' = outer
    /\ mainpc' = "gathering"
    /\ ready' = [i \in Units |-> StepHandle(i)]
    /\ UNCHANGED <<toolVars, recipe_paths, nfinished, exitcode, nameVars, runVars, pubVars,
                   repoVars, heldVars, pc, exc, result, cur, cancelReq>>

\* main(), lines 103-150: asyncio.gather wraps every coroutine in a task, in
\* list order; with no coroutine it returns a finished future and the await
\* does not suspend.
MainGather ==
    /\ mainpc = "start"
    /\ IF Len(recipe_paths) = 0
       THEN /\ outer' = "result"
            /\ mainpc' = "returned"
            /\ ready' = ready
       ELSE /\ outer' = outer
            /\ mainpc' = "gathering"
            /\ ready' = [i \in Units |-> StepHandle(i)]
    /\ UNCHANGED <<toolVars, recipe_paths, nfinished, exitcode, nameVars, runVars, pubVars,
                   repoVars, heldVars, pc, exc, result, cur, cancelReq>>

\* process_recipe, lines 42-55: the first step of the task computes the branch
\* name and the worktree path from the stem and the clock, and points the
\* munki_repo of its clone of the preferences into the worktree.  The clock may pass
\* to the next second before the next unit reads it; once every unit has read
\* it, it is not read again and stays.
StartUnit(i) ==
    /\ LoopRunning /\ cur = 0
    /\ ready # <<>> /\ Head(ready) = StepHandle(i)
    /\ pc[i] = "new"
    /\ branch' = [branch EXCEPT ![i] = BranchName(recipe_paths[i], now)]
    /\ worktree_path' =
         [worktree_path EXCEPT ![i] = WorktreePath(recipe_paths[i], now)]
    /\ munki_repo' =
         [munki_repo EXCEPT
            ![clone(i)] = MunkiRepoPath(WorktreePath(recipe_paths[i], now))]
    /\ now' \in IF \E j \in Units : j # i /\ pc[j] = "new"
               THEN {now, now + 1} ELSE {now}
    /\ ready' = Tail(ready)
    /\ pc' = [pc EXCEPT ![i] = "create_head"]
    /\ cur' = i
    /\ UNCHANGED <<toolVars, recipe_paths, mainVars, runVars, pubVars, repoVars, heldVars,
                   exc, result, cancelReq>>

\* worktree(), line 23: repo.create_head(branch) creates the ref or raises.
\* For a branch that exists already (at the same commit) the library may raise
\* or leave the ref as it is; both are modelled.  The call is outside the try,
\* so nothing undoes it.
CreateHead(i) ==
    /\ cur = i /\ pc[i] = "create_head"
    /\ \E failed \in BOOLEAN :
         IF ~failed
         THEN /\ branches' = branches \cup {branch[i]}
              /\ madeHead' = [madeHead EXCEPT ![i] = branch[i] \notin branches]
              /\ pc' = [pc EXCEPT ![i] = "worktree_add"]
              /\ UNCHANGED <<exc, result, ready, cur>>
         ELSE /\ UNCHANGED <<branches, madeHead>>
              /\ TaskDone(i, "error", ready)
    /\ UNCHANGED <<toolVars, recipe_paths, mainVars, nameVars, runVars, pubVars, worktrees,
                   acquired, released, cancelReq>>

\* worktree(), line 24, then lines 26 and 57-61: `git worktree add` raises when
\* the path exists or the branch is checked out in another worktree (or for
\* any other git failure); after it the unit holds its workspace and suspends
\* in the await of Recipe.run().
WorktreeAdd(i) ==
    /\ cur = i /\ pc[i] = "worktree_add"
    /\ \E failed \in BOOLEAN :
         IF /\ ~failed
            /\ \A w \in worktrees :
                  w.path # worktree_path[i] /\ w.branch # branch[i]
         THEN /\ worktrees' = worktrees \cup
                    {[path |-> worktree_path[i], branch |-> branch[i]]}
              /\ acquired' = [acquired EXCEPT ![i] = TRUE]
              /\ execst' = [execst EXCEPT ![i] = "running"]
              /\ Goto(i, "await_run", ready)
         ELSE /\ UNCHANGED <<worktrees, acquired, execst>>
              /\ TaskDone(i, "error", ready)
    /\ UNCHANGED <<toolVars, recipe_paths, mainVars, nameVars, hasItems, completed, pubVars,
                   branches, madeHead, released, cancelReq>>

\* Recipe.run() completes (line 61) and the future's callback schedules the
\* task's wakeup; what it completed with is drawn when the wakeup reads it.
ExecFinish(i) ==
    /\ LoopRunning /\ cur = 0
    /\ pc[i] = "await_run" /\ execst[i] = "running"
    /\ execst' = [execst EXCEPT ![i] = "finished"]
    /\ completed' = Append(completed, i)
    /\ ready' = call_soon(ready, StepHandle(i))
    /\ UNCHANGED <<toolVars, recipe_paths, mainVars, nameVars, hasItems, pubVars, repoVars,
                   heldVars, pc, exc, result, cur, cancelReq>>

\* The task's wakeup, lines 59-70: the await ends with the run's exception
\* (k = -1), with results of k imported items, or with the CancelledError of a
\* cancelled task (which discards a result the run completed with).  A unit
\* that goes on to publish enters the staging loop, or passes it when there is
\* nothing to stage.
ResumeUnit(i) ==
    /\ LoopRunning /\ cur = 0
    /\ ready # <<>> /\ Head(ready) = StepHandle(i)
    /\ pc[i] # "new"
    /\ IF pc[i] = "await_run"
       THEN \E k \in -1..MaxItems :
            LET st == IF execst[i] = "cancelled" THEN "cancelled"
                      ELSE IF k < 0 THEN "raise" ELSE "ok"
                n == IF st = "ok" THEN k ELSE 0
                a == AfterRun(st, n, cancelReq[i]) IN
            /\ execst[i] = "cancelled" => k = -1
            /\ execst' = [execst EXCEPT ![i] = st]
            /\ hasItems' = [hasItems EXCEPT ![i] = n > 0]
            /\ tostage' = [tostage EXCEPT ![i] = IF a.pc = "exit" THEN 0 ELSE n]
            /\ IF a.pc = "exit"
               THEN Exit(i, a.exc, Tail(ready))
               ELSE Goto(i, IF n > 0 THEN "stage" ELSE "commit", Tail(ready))
       ELSE /\ cur' = i
            /\ ready' = Tail(ready)
            /\ UNCHANGED <<pc, exc, result, execst, hasItems, tostage>>
    /\ completed' = SelectSeq(completed, LAMBDA j : j # i)
    /\ UNCHANGED <<toolVars, recipe_paths, mainVars, nameVars, staged, commits, pushes,
                   pulls, repoVars, heldVars, cancelReq>>

\* Lines 74-80: wt_repo.index.add(files) for the next imported item.
StageItem(i) ==
    /\ cur = i /\ pc[i] = "stage"
    /\ \E failed \in BOOLEAN :
         /\ IF ~failed
            THEN /\ tostage' = [tostage EXCEPT ![i] = @ - 1]
                 /\ staged' = [staged EXCEPT ![i] = TRUE]
                 /\ Goto(i, IF tostage[i] - 1 > 0 THEN "stage"
                            ELSE NextStep("stage"), ready)
            ELSE /\ tostage' = [tostage EXCEPT ![i] = 0]
                 /\ UNCHANGED staged
                 /\ Exit(i, "error", ready)
    /\ UNCHANGED <<toolVars, recipe_paths, mainVars, nameVars, runVars, commits, pushes,
                   pulls, repoVars, heldVars, cancelReq>>

\* Line 87: wt_repo.index.commit(commit_msg).
Commit(i) ==
    /\ cur = i /\ pc[i] = "commit"
    /\ \E failed \in BOOLEAN :
         /\ IF ~failed
            THEN /\ commits' = [commits EXCEPT ![i] = @ + 1]
                 /\ Goto(i, NextStep("commit"), ready)
            ELSE /\ UNCHANGED commits
                 /\ Exit(i, "error", ready)
    /\ UNCHANGED <<toolVars, recipe_paths, mainVars, nameVars, runVars, tostage, staged,
                   pushes, pulls, repoVars, heldVars, cancelReq>>

\* Line 88: wt_repo.remote("origin").push(refspec=f"{branch}:{branch}").
Push(i) ==
    /\ cur = i /\ pc[i] = "push"
    /\ \E failed \in BOOLEAN :
         /\ IF ~failed
            THEN /\ pushes' = [pushes EXCEPT ![i] = @ + 1]
                 /\ Goto(i, NextStep("push"), ready)
            ELSE /\ UNCHANGED pushes
                 /\ Exit(i, "error", ready)
    /\ UNCHANGED <<toolVars, recipe_paths, mainVars, nameVars, runVars, tostage, staged,
                   commits, pulls, repoVars, heldVars, cancelReq>>

\* The titles of the pull requests the batch has opened.
PullTitles ==
    {PullTitle(ItemName, ItemVersion) : j \in {u \in Units : pulls[u] > 0}}

\* Lines 92-100: gh.get_repo(gh_repo).create_pull(...); the with-body ends.
CreatePull(i) ==
    /\ cur = i /\ pc[i] = "create_pull"
    /\ \E failed \in BOOLEAN :
         /\ IF ~failed
            THEN /\ pulls' = [pulls EXCEPT ![i] =
                                IF OpensPull(PullTitle(ItemName, ItemVersion),
                                             PullTitles)
                                THEN @ + 1 ELSE @]
                 /\ Exit(i, "none", ready)
            ELSE /\ UNCHANGED pulls
                 /\ Exit(i, "error", ready)
    /\ UNCHANGED <<toolVars, recipe_paths, mainVars, nameVars, runVars, tostage, staged,
                   commits, pushes, repoVars, heldVars, cancelReq>>

\* worktree(), line 28: repo.git.worktree("remove", str(path), "--force").
WorktreeRemove(i) ==
    /\ cur = i /\ pc[i] = "remove"
    /\ worktrees' = {w \in worktrees : w.path # worktree_path[i]}
    /\ pc' = [pc EXCEPT ![i] = "prune"]
    /\ UNCHANGED <<toolVars, recipe_paths, mainVars, nameVars, runVars, pubVars, branches,
                   heldVars, exc, result, ready, cur, cancelReq>>

\* worktree(), line 29: repo.git.worktree("prune"); then the exception in
\* flight, if any, leaves process_recipe and ends the task.
WorktreePrune(i) ==
    /\ cur = i /\ pc[i] = "prune"
    /\ released' = [released EXCEPT ![i] = @ + 1]
    /\ TaskDone(i, exc[i], ready)
    /\ UNCHANGED <<toolVars, recipe_paths, mainVars, nameVars, runVars, pubVars, repoVars,
                   madeHead, acquired, cancelReq>>

\* asyncio.gather's _done_callback for child i (return_exceptions=False): the
\* first child that ends with an exception or cancelled settles the outer
\* future with that exception; otherwise the outer future gets its result when
\* the last child has finished.
GatherCallback(i) ==
    /\ LoopRunning /\ cur = 0
    /\ ready # <<>> /\ Head(ready) = GatherHandle(i)
    /\ IF outer # "pending"
       THEN /\ ready' = Tail(ready)
            /\ UNCHANGED <<outer, nfinished>>
       ELSE IF result[i] # "ok"
       THEN /\ outer' = "exc"
            /\ ready' = call_soon(Tail(ready), MainHandle)
            /\ UNCHANGED nfinished
       ELSE /\ nfinished' = nfinished + 1
            /\ outer' = IF nfinished + 1 = Len(recipe_paths)
                        THEN "result" ELSE outer
            /\ ready' = IF nfinished + 1 = Len(recipe_paths)
                        THEN call_soon(Tail(ready), MainHandle) ELSE Tail(ready)
    /\ UNCHANGED <<toolVars, recipe_paths, mainpc, exitcode, nameVars, runVars, pubVars,
                   repoVars, heldVars, pc, exc, result, cur, cancelReq>>

\* main's wakeup, line 137: the await of gather returns or raises.  When it
\* raises, main's task ends with the exception and run_until_complete's done
\* callback, which stops the loop, is scheduled behind the handles already
\* queued.
MainWakeup ==
    /\ mainpc = "gathering" /\ cur = 0
    /\ ready # <<>> /\ Head(ready) = MainHandle
    /\ ready' = IF outer = "result" THEN Tail(ready)
                ELSE call_soon(Tail(ready), StopHandle)
    /\ mainpc' = IF outer = "result" THEN "returned" ELSE "raised"
    /\ UNCHANGED <<toolVars, recipe_paths, outer, nfinished, exitcode, nameVars, runVars,
                   pubVars, repoVars, heldVars, pc, exc, result, cur, cancelReq>>

\* asyncio.run, line 154: the callback that stops the loop runs; the loop
\* still finishes the iteration it is in, so handles queued behind the
\* callback may run before the loop ends.
LoopStop ==
    /\ mainpc = "raised" /\ cur = 0
    /\ ready # <<>> /\ Head(ready) = StopHandle
    /\ ready' = Tail(ready)
    /\ mainpc' = "stopping"
    /\ UNCHANGED <<toolVars, recipe_paths, outer, nfinished, exitcode, nameVars, runVars,
                   pubVars, repoVars, heldVars, pc, exc, result, cur, cancelReq>>

\* asyncio.run, line 154: after the loop ended, _cancel_all_tasks calls cancel()
\* on every task that is not done, in the order of a set.  A task whose awaited
\* future is still pending has that future cancelled, which schedules its
\* wakeup; a task whose wakeup is already scheduled is marked to be cancelled.
CancelTask(i) ==
    /\ mainpc \in {"stopping", "cancelling"} /\ cur = 0
    /\ pc[i] # "done" /\ ~cancelReq[i]
    /\ mainpc' = "cancelling"
    /\ cancelReq' = [cancelReq EXCEPT ![i] = TRUE]
    /\ IF execst[i] = "running"
       THEN /\ execst' = [execst EXCEPT ![i] = "cancelled"]
            /\ ready' = call_soon(ready, StepHandle(i))
       ELSE UNCHANGED <<execst, ready>>
    /\ UNCHANGED <<toolVars, recipe_paths, outer, nfinished, exitcode, nameVars, hasItems,
                   completed, pubVars, repoVars, heldVars, pc, exc, result, cur>>

\* asyncio.run: every remaining task is cancelled; the loop runs again until
\* they have all ended.
CancelWait ==
    /\ mainpc \in {"stopping", "cancelling"} /\ cur = 0
    /\ \A i \in Units : pc[i] = "done" \/ cancelReq[i]
    /\ mainpc' = "draining"
    /\ UNCHANGED <<toolVars, recipe_paths, outer, nfinished, exitcode, nameVars, runVars,
                   pubVars, repoVars, heldVars, taskVars, cancelReq>>

\* asyncio.run closes the loop, which drops the handles still queued; the
\* process exits 0 when main returned and 1 when the exception of main leaves
\* the script.
LoopClose ==
    /\ mainpc \in {"returned", "draining"} /\ cur = 0
    /\ \A i \in Units : pc[i] = "done"
    /\ mainpc' = "closed"
    /\ ready' = <<>>
    /\ exitcode' = IF mainpc = "returned" THEN 0 ELSE 1
    /\ UNCHANGED <<toolVars, recipe_paths, outer, nfinished, nameVars, runVars, pubVars,
                   repoVars, heldVars, pc, exc, result, cur, cancelReq>>

Next ==
    \/ MainGather
    \/ MainWakeup
    \/ LoopStop
    \/ CancelWait
    \/ LoopClose
    \/ \E i \in Units :
         \/ StartUnit(i)
         \/ CreateHead(i)
         \/ WorktreeAdd(i)
         \/ ExecFinish(i)
         \/ ResumeUnit(i)
         \/ StageItem(i)
         \/ Commit(i)
         \/ Push(i)
         \/ CreatePull(i)
         \/ WorktreeRemove(i)
         \/ WorktreePrune(i)
         \/ GatherCallback(i)
         \/ CancelTask(i)

Spec == Init /\ [][Next]_vars

----------------------------------------------------------------------------
\* Vocabulary of the properties.

Closed == mainpc = "closed"

\* The unit's Recipe.run() completed with at least one imported item / with
\* an empty list / by raising.
YieldedItems(i) == execst[i] = "ok" /\ hasItems[i]
YieldedNothing(i) == execst[i] = "ok" /\ ~hasItems[i]
ExecutorRaised(i) == execst[i] = "raise"

\* The unit is between its first staging step and the end of its pull-request
\* creation.
InPublication(i) == pc[i] \in {"stage", "commit", "push", "create_pull"}

Published(i) == commits[i] = 1 /\ pushes[i] = 1 /\ pulls[i] = 1
NoPublicationStep(i) ==
    ~staged[i] /\ commits[i] = 0 /\ pushes[i] = 0 /\ pulls[i] = 0

\* The unit ended with the exception of one of its own publication steps /
\* of its workspace acquisition.
PublicationFailed(i) == result[i] = "exc" /\ acquired[i]
AcquisitionFailed(i) == result[i] = "exc" /\ ~acquired[i]

C2_NoItemsNoPublication ==
    \A i \in Units :
      YieldedNothing(i) => NoPublicationStep(i) /\ ~InPublication(i)

C2_Witness ==
    /\ Closed
    /\ \E i, j \in Units :
         /\ YieldedNothing(i) /\ result[i] = "ok" /\ released[i] = 1
         /\ Published(j)

\* C3: at most one unit is inside a publication at any time, although the
\* recipe runs of the units overlap.
C3_OnePublicationAtATime ==
    Cardinality({i \in Units : InPublication(i)}) <= 1

C3_Witness ==
    \E i, j \in Units :
      /\ i # j
      /\ pc[i] = "push"
      /\ pc[j] = "await_run" /\ execst[j] = "finished"

\* C4: a unit that starts its publication is the unit whose run completed
\* first among the runs whose wakeup has not run yet: publications happen in
\* the completion order of the runs, not in submission order.
C4_PublicationInCompletionOrder ==
    [][\A i \in Units :
         (pc[i] = "await_run" /\ InPublication(i)') =>
           (completed # <<>> /\ Head(completed) = i)]_vars

\* Submitted as [1, 2]: unit 2 has been published while unit 1, whose run
\* completed later, still waits for its wakeup.
C4_Witness ==
    /\ Len(recipe_paths) >= 2
    /\ Published(2)
    /\ pc[1] = "await_run" /\ execst[1] = "finished"
    /\ completed = <<1>>

\* C5: the branch names and the worktree paths computed by units that are
\* running at the same time are pairwise distinct.
C5_WorkspacesDisjoint ==
    \A i, j \in Units :
      (i # j /\ pc[i] \notin {"new", "done"} /\ pc[j] \notin {"new", "done"}) =>
        (branch[i] # branch[j] /\ worktree_path[i] # worktree_path[j])

\* C6: a unit whose recipe run raised ends normally (the exception is caught)
\* without a publication step; and when no git or GitHub call of the batch
\* failed, main returns normally and every unit that yielded items is
\* published, whatever runs raised.
C6_ExecutorFailureIsolated ==
    /\ \A i \in Units :
         (ExecutorRaised(i) /\ pc[i] = "done" /\ ~cancelReq[i]) =>
           (result[i] = "ok" /\ NoPublicationStep(i))
    /\ (Closed /\ \A i \in Units : result[i] # "exc") =>
         /\ exitcode = 0
         /\ \A j \in Units : result[j] = "ok" /\ (YieldedItems(j) => Published(j))

C6_Witness ==
    /\ Closed
    /\ \E x, y \in Units :
         /\ ExecutorRaised(x) /\ result[x] = "ok"
         /\ YieldedItems(y) /\ Published(y)

C8_PublicationFailureContained ==
    (Closed /\ \A i \in Units : result[i] = "exc" => PublicationFailed(i)) =>
      /\ exitcode = 0
      /\ \A j \in Units :
           YieldedItems(j) => (Published(j) \/ PublicationFailed(j))

\* C9: a failed workspace acquisition leaves no branch it created, and when
\* the only failures of a batch are failed acquisitions the batch does not
\* crash.
C9_AcquisitionFailureContained ==
    Closed =>
      /\ \A i \in Units :
           AcquisitionFailed(i) => ~(madeHead[i] /\ branch[i] \in branches)
      /\ (\A i \in Units : result[i] = "exc" => AcquisitionFailed(i)) =>
           exitcode = 0

\* C10: main has returned or raised only when every unit has finished.
C10_MainWaitsForAllUnits ==
    mainpc \notin {"start", "gathering"} => \A i \in Units : pc[i] = "done"

\* What process_recipe hands back for a unit whose run ended in state st with
\* (has) or without imported items: every return path (lines 66, 70 and the
\* end of the body, line 100) returns None, and main() keeps nothing else.
ReturnValue(st, has) == "None"

\* The outcome the batch records for unit i, and the number of units it records
\* with a given outcome.
RecordedOutcome(i) == ReturnValue(execst[i], hasItems[i])
ReportCount(kind) ==
    Cardinality({i \in Units : result[i] = "ok" /\ RecordedOutcome(i) = kind})

\* C11: a batch that ran to its end reports as succeeded the units it
\* published, as failed the units whose run raised and as no_changes the units
\* whose run imported nothing.
C11_BatchReport ==
    (Closed /\ exitcode = 0) =>
      /\ ReportCount("succeeded") =
           Cardinality({i \in Units : YieldedItems(i) /\ Published(i)})
      /\ ReportCount("failed") = Cardinality({i \in Units : ExecutorRaised(i)})
      /\ ReportCount("no_changes") =
           Cardinality({i \in Units : YieldedNothing(i)})

\* C12: the process exits with a non-zero status whenever the recipe run of
\* some unit of the batch raised.
C12_ExitStatusReflectsFailure ==
    Closed => ((\E i \in Units : ExecutorRaised(i)) => exitcode # 0)

\* C13: a batch with no recipe ends at once, exit status 0, and allocates
\* nothing: main never waits, no handle is scheduled, no branch is created, no
\* worktree is added and no run completes.
C13_EmptyBatchAllocatesNothing ==
    Len(recipe_paths) = 0 =>
      /\ mainpc \in {"start", "returned", "closed"}
      /\ branches = {} /\ worktrees = {}
      /\ ready = <<>> /\ completed = <<>>
      /\ Closed => exitcode = 0

C13_Witness == Len(recipe_paths) = 0 /\ Closed /\ exitcode = 0

C15_NoDeduplication ==
    /\ \A i \in Units :
         (YieldedItems(i) /\ pc[i] \in {"remove", "prune", "done"}
            /\ exc[i] = "none") => Published(i)
    /\ \A i, j \in Units :
         (i # j /\ pulls[i] = 1 /\ pulls[j] = 1) => branch[i] # branch[j]

\* Two units of one batch, same item name and version, both published.
C15_Witness ==
    /\ Closed
    /\ \E i, j \in Units :
         /\ i # j /\ Published(i) /\ Published(j)
         /\ PullTitles = {PullTitle(ItemName, ItemVersion)}

\* The unit holds its worktree: it is registered and not yet removed.
Holding(i) ==
    /\ acquired[i]
    /\ pc[i] \in {"await_run", "stage", "commit", "push", "create_pull", "remove"}

\* C16: the shared preferences are never changed; the preferences a unit runs
\* its recipe with and stages from point into the unit's own worktree; and two
\* units never hold the same worktree path at the same time.
C16_WorkspaceOwnedByOneUnit ==
    /\ munki_repo[0] = DefaultMunkiRepo
    /\ \A i \in Units :
         pc[i] # "new" => munki_repo[clone(i)] = MunkiRepoPath(worktree_path[i])
    /\ \A i, j \in Units :
         (i # j /\ Holding(i) /\ Holding(j)) =>
           worktree_path[i] # worktree_path[j]

\* Two recipes of the same stem run at the same time, each in its worktree.
C16_Witness ==
    \E i, j \in Units :
      /\ i # j /\ recipe_paths[i] = recipe_paths[j]
      /\ execst[i] = "running" /\ execst[j] = "running"
      /\ munki_repo[i] # munki_repo[j]

\* The worktree of the unit is registered in the base repository.
Registered(i) ==
    [path |-> worktree_path[i], branch |-> branch[i]] \in worktrees

----------------------------------------------------------------------------
(***************************************************************************)
(* lambopkg/tools/run.py: main() selects the recipes, changes into the     *)
(* recipe repositories, calls run_recipes inside try/finally and exits     *)
(* with a status made from the failed count.  The rate-limit check and     *)
(* `autopkg run` are the environment: the check reports zero remaining     *)
(* calls, some, or fails; autopkg exits 0, exits non-zero                  *)
(* (CalledProcessError), or subprocess.run raises something else (no       *)
(* autopkg executable, an interrupt).                                      *)
(***************************************************************************)

\* Bound: the number of recipes of a run.
MaxRunRecipes == 2

\* Line 208: sys.exit(1 if failed else 0).
ExitStatusIsCount(f) == f
ExitStatus(f) == IF f # 0 THEN 1 ELSE 0

\* main, lines 192-198: with --recipe, anything but exactly one match ends the
\* script with sys.exit(message), status 1, before the directory is changed.
RunSelect ==
    /\ rpc = "start"
    /\ IF recipe_arg /\ nrecipes # 1
       THEN rpc' = "exited" /\ status' = 1
       ELSE rpc' = "chdir" /\ status' = status
    /\ UNCHANGED <<nrecipes, recipe_arg, dry_run, fail_fast, idx, succeeded,
                   failedCount, failures, ran, checks, cwd, returned>>
    /\ UNCHANGED <<batchVars, orchVars, moreVars>>

\* main, lines 200-202: os.chdir(recipe_repos), outside the try; when it raises
\* the directory has not changed.
RunChdir ==
    /\ rpc = "chdir"
    /\ \E raised \in BOOLEAN :
         IF raised
         THEN rpc' = "exited" /\ status' = 1 /\ cwd' = cwd
         ELSE rpc' = "run_recipes" /\ status' = status /\ cwd' = "recipe_repos"
    /\ UNCHANGED <<nrecipes, recipe_arg, dry_run, fail_fast, idx, succeeded,
                   failedCount, failures, ran, checks, returned>>
    /\ UNCHANGED <<batchVars, orchVars, moreVars>>

\* run_recipes, lines 104-122: no recipe returns (0, 0); a dry run returns
\* (len(recipes), 0); otherwise the loop starts at the first recipe.
RunRecipesEnter ==
    /\ rpc = "run_recipes"
    /\ IF nrecipes = 0
       THEN rpc' = "finally" /\ returned' = "tuple"
            /\ UNCHANGED <<idx, succeeded>>
       ELSE IF dry_run
       THEN rpc' = "finally" /\ returned' = "tuple"
            /\ succeeded' = nrecipes /\ idx' = idx
       ELSE rpc' = "loop" /\ idx' = 1 /\ UNCHANGED <<returned, succeeded>>
    /\ UNCHANGED <<nrecipes, recipe_arg, dry_run, fail_fast, failedCount,
                   failures, ran, checks, cwd, status>>
    /\ UNCHANGED <<batchVars, orchVars, moreVars>>

\* Where the loop goes after recipe idx: to the next recipe, or to the summary
\* after the last one and after a break.
RunAdvanceStopsEarly(break) ==
    IF break \/ idx + 1 >= nrecipes
    THEN rpc' = "summary" /\ idx' = idx
    ELSE rpc' = "loop" /\ idx' = idx + 1
RunAdvanceIgnoresBreak(break) ==
    IF idx = nrecipes
    THEN rpc' = "summary" /\ idx' = idx
    ELSE rpc' = "loop" /\ idx' = idx + 1
RunAdvance(break) ==
    IF break \/ idx = nrecipes
    THEN rpc' = "summary" /\ idx' = idx
    ELSE rpc' = "loop" /\ idx' = idx + 1

\* check_github_rate_limit, lines 67-82: a dict with 'remaining' (and 'used',
\* 'limit', 'reset'), or a dict with 'error' when PyGithub is missing or the
\* call raised.
RateInfo == {[remaining |-> 0], [remaining |-> 60], [error |-> "e"]}

\* dict.get(key, default).
Get(d, key, default) == IF key \in DOMAIN d THEN d[key] ELSE default

\* Line 130: before.get('remaining', 1) == 0.
RateLimitedByDefault(before) == Get(before, "remaining", 0) = 0
RateLimited(before) == Get(before, "remaining", 1) = 0

\* run_recipes, lines 124-155: one iteration of the loop.
RunRecipe ==
    /\ rpc = "loop"
    /\ \E before \in RateInfo,
          out \in {"ok", "CalledProcessError", "raise"} :
         /\ checks' = Append(checks, [i |-> idx, before |-> before])
         /\ IF RateLimited(before)
            THEN /\ out = "ok"
                 /\ failedCount' = failedCount + 1
                 /\ failures' = Append(failures, idx)
                 /\ RunAdvance(fail_fast)
                 /\ UNCHANGED <<succeeded, ran, returned>>
            ELSE /\ ran' = Append(ran, idx)
                 /\ CASE out = "ok" ->
                           /\ succeeded' = succeeded + 1
                           /\ RunAdvance(FALSE)
                           /\ UNCHANGED <<failedCount, failures, returned>>
                      [] out = "CalledProcessError" ->
                           /\ failedCount' = failedCount + 1
                           /\ failures' = Append(failures, idx)
                           /\ RunAdvance(fail_fast)
                           /\ UNCHANGED <<succeeded, returned>>
                      [] OTHER ->
                           /\ rpc' = "finally" /\ returned' = "raised"
                           /\ UNCHANGED <<idx, succeeded, failedCount,
                                          failures>>
    /\ UNCHANGED <<nrecipes, recipe_arg, dry_run, fail_fast, cwd, status>>
    /\ UNCHANGED <<batchVars, orchVars, moreVars>>

\* run_recipes, lines 157-171: the summary, then return succeeded, failed.
RunSummary ==
    /\ rpc = "summary"
    /\ rpc' = "finally" /\ returned' = "tuple"
    /\ UNCHANGED <<nrecipes, recipe_arg, dry_run, fail_fast, idx, succeeded,
                   failedCount, failures, ran, checks, cwd, status>>
    /\ UNCHANGED <<batchVars, orchVars, moreVars>>

\* main, lines 205-206: the finally changes back to original_dir; an exception
\* of run_recipes then leaves main and the interpreter exits with status 1.
RunFinally ==
    /\ rpc = "finally"
    /\ cwd' = "original_dir"
    /\ IF returned = "raised"
       THEN rpc' = "exited" /\ status' = 1
       ELSE rpc' = "exit" /\ status' = status
    /\ UNCHANGED <<nrecipes, recipe_arg, dry_run, fail_fast, idx, succeeded,
                   failedCount, failures, ran, checks, returned>>
    /\ UNCHANGED <<batchVars, orchVars, moreVars>>

\* main, lines 207-208.
RunExit ==
    /\ rpc = "exit"
    /\ rpc' = "exited"
    /\ status' = ExitStatus(failedCount)
    /\ UNCHANGED <<nrecipes, recipe_arg, dry_run, fail_fast, idx, succeeded,
                   failedCount, failures, ran, checks, cwd, returned>>
    /\ UNCHANGED <<batchVars, orchVars, moreVars>>

RunNext ==
    \/ RunSelect
    \/ RunChdir
    \/ RunRecipesEnter
    \/ RunRecipe
    \/ RunSummary
    \/ RunFinally
    \/ RunExit

\* run.py alone: no batch of autopkg_tools.py and no process_url is running.
BatchIdle ==
    /\ recipe_paths = <<>> /\ now = 0 /\ mainpc = "idle" /\ outer = "pending"
    /\ nfinished = 0 /\ ready = <<>> /\ cur = 0
    /\ pc = <<>> /\ branch = <<>> /\ worktree_path = <<>> /\ execst = <<>>
    /\ hasItems = <<>> /\ tostage = <<>> /\ staged = <<>> /\ madeHead = <<>>
    /\ cancelReq = <<>> /\ exc = <<>> /\ result = <<>> /\ acquired = <<>>
    /\ released = <<>> /\ branches = {} /\ worktrees = {}
    /\ commits = <<>> /\ pushes = <<>> /\ pulls = <<>>
    /\ munki_repo = <<>> /\ completed = <<>> /\ exitcode = -1

InitRun ==
    /\ rpc = "start"
    /\ nrecipes \in 0..MaxRunRecipes
    /\ recipe_arg \in BOOLEAN
    /\ dry_run \in BOOLEAN
    /\ fail_fast \in BOOLEAN
    /\ idx = 0 /\ succeeded = 0 /\ failedCount = 0 /\ ran = <<>>
    /\ failures = <<>> /\ checks = <<>>
    /\ cwd = "original_dir" /\ returned = "pending" /\ status = -1
    /\ BatchIdle /\ OrchIdle /\ MoreIdle

SpecRun == InitRun /\ [][RunNext]_vars

\* run_recipes returned a failed count that is not zero.
ReportedFailure == returned = "tuple" /\ failedCount > 0

\* C17 as stated: run.py exits with status 1 exactly when run_recipes reported
\* a failed recipe and with 0 otherwise, and it ends in the original
\* directory.
C17_ExitOneIffFailureReported ==
    rpc = "exited" =>
      /\ status = (IF ReportedFailure THEN 1 ELSE 0)
      /\ cwd = "original_dir"

\* C17 amended: when run_recipes returns, the exit status is 1 exactly when
\* its failed count is not zero and 0 otherwise; when it raises, when the
\* change of directory raises or when --recipe does not select exactly one
\* recipe, the status is 1 with no failure reported; the process is outside
\* the original directory only between the chdir and the finally, and ends in
\* the original directory on every path.
C17_ExitStatusAndDirectory ==
    /\ rpc = "exited" =>
         /\ returned = "tuple" => status = (IF failedCount > 0 THEN 1 ELSE 0)
         /\ returned # "tuple" => status = 1
    /\ cwd # "original_dir" =>
         rpc \in {"run_recipes", "loop", "summary", "finally"}

\* run_recipes raised after it had counted a failed recipe: status 1, back in
\* the original directory.
C17_Witness ==
    /\ rpc = "exited" /\ returned = "raised"
    /\ failedCount > 0 /\ Len(ran) > 1
    /\ cwd = "original_dir" /\ status = 1


\* The recipes the loop has handled, in the order of the iterations.
Handled == [k \in 1..Len(checks) |-> checks[k].i]

\* Recipe r is an element of the sequence q.
In(r, q) == \E k \in 1..Len(q) : q[k] = r

C23_FailFastStopsAtFirstFailure ==
    fail_fast =>
      /\ failedCount = Len(failures)
      /\ failedCount <= 1
      /\ failedCount = 1 =>
           /\ rpc # "loop"
           /\ succeeded = failures[1] - 1
           /\ \A k \in 1..Len(checks) : checks[k].i <= failures[1]
           /\ \A k \in 1..Len(ran) : ran[k] <= failures[1]

\* The first of two recipes failed under fail_fast: the second never ran.
C23_Witness ==
    /\ fail_fast /\ returned = "tuple" /\ nrecipes = 2
    /\ failures = <<1>> /\ ran = <<1>> /\ succeeded = 0 /\ failedCount = 1

\* C24: a recipe whose check reported zero remaining calls is never handed to
\* autopkg and is counted as failed; a recipe whose check failed (a dict
\* without 'remaining') is handed to autopkg.
C24_RateLimitedNeverExecuted ==
    \A k \in 1..Len(checks) :
      LET c == checks[k] IN
        /\ ("remaining" \in DOMAIN c.before /\ c.before.remaining = 0) =>
             /\ ~In(c.i, ran)
             /\ In(c.i, failures)
             /\ failedCount >= 1
        /\ "remaining" \notin DOMAIN c.before => In(c.i, ran)

\* The first recipe was rate-limited and skipped, the check before the second
\* failed and the second was executed.
C24_Witness ==
    /\ returned = "tuple" /\ Len(checks) = 2
    /\ checks[1].before = [remaining |-> 0]
    /\ "error" \in DOMAIN checks[2].before
    /\ ran = <<2>> /\ failures = <<1>> /\ succeeded = 1

----------------------------------------------------------------------------
(***************************************************************************)
(* tools/orchestrate.py: process_url() runs lib/generate.py, reads the      *)
(* FILENAMES: and RECIPES: lines of its output, runs lib/run.py and         *)
(* lib/override.py.  The exit statuses of the three scripts and the output  *)
(* of the generate step are the environment.                                *)
(***************************************************************************)

\* Bound: the number of output lines of the generate step.
MaxLines == 2

\* An output line, as parse_output sees it: what it starts with, and the
\* stripped values between the commas after the first colon ("": a blank).
Vals == {<<"">>, <<"a">>, <<"a", "b">>}
LineSet ==
    {[tag |-> t, vals |-> v] : t \in {"FILENAMES:", "RECIPES:"}, v \in Vals}
      \cup {[tag |-> "log", vals |-> <<"">>]}

\* generate.py prints each of its result lines at most once.
Outputs ==
    {out \in UNION {[1..k -> LineSet] : k \in 0..MaxLines} :
       \A a, b \in 1..Len(out) :
         (out[a].tag = out[b].tag /\ out[a].tag # "log") => a = b}

NonBlank(v) == SelectSeq(v, LAMBDA x : x # "")

\* parse_output, lines 87-92: the values of the first line that starts with
\* the prefix, blanks dropped; [] when there is no such line.
parse_output_any_line(ls, prefix) ==
    IF ls = <<>> THEN <<>> ELSE NonBlank(ls[1].vals)
parse_output_keeps_blank(ls, prefix) ==
    LET ks == {k \in 1..Len(ls) : ls[k].tag = prefix} IN
    IF ks = {} THEN <<>>
    ELSE ls[CHOOSE k \in ks : \A j \in ks : k <= j].vals
parse_output(ls, prefix) ==
    LET ks == {k \in 1..Len(ls) : ls[k].tag = prefix} IN
    IF ks = {} THEN <<>>
    ELSE NonBlank(ls[CHOOSE k \in ks : \A j \in ks : k <= j].vals)

\* process_url, lines 97-102: the generate step is started.
ProcessUrlStart ==
    /\ opc = "start"
    /\ opc' = "generate"
    /\ scripts' = Append(scripts, "generate")
    /\ UNCHANGED <<lines, gen_ret, run_ret, override_ret, url_ok>>
    /\ UNCHANGED <<batchVars, runpyVars, moreVars>>

\* process_url, lines 102-118: generate ends with status ret and output out;
\* a non-zero status or an empty list of filenames returns False, otherwise
\* the run step is started.
GenerateDone ==
    /\ opc = "generate"
    /\ \E ret \in {0, 1}, out \in Outputs :
         /\ gen_ret' = ret
         /\ lines' = out
         /\ IF ret # 0 \/ parse_output(out, "FILENAMES:") = <<>>
            THEN opc' = "done" /\ url_ok' = "False" /\ scripts' = scripts
            ELSE opc' = "run" /\ url_ok' = url_ok
                 /\ scripts' = Append(scripts, "run")
    /\ UNCHANGED <<run_ret, override_ret>>
    /\ UNCHANGED <<batchVars, runpyVars, moreVars>>

\* process_url, lines 118-137: the run step ends with status ret, which is
\* only logged; without recipe names process_url returns True, otherwise the
\* override step is started.
RunDone ==
    /\ opc = "run"
    /\ \E ret \in {0, 1} :
         /\ run_ret' = ret
         /\ IF parse_output(lines, "RECIPES:") = <<>>
            THEN opc' = "done" /\ url_ok' = "True" /\ scripts' = scripts
            ELSE opc' = "override" /\ url_ok' = url_ok
                 /\ scripts' = Append(scripts, "override")
    /\ UNCHANGED <<lines, gen_ret, override_ret>>
    /\ UNCHANGED <<batchVars, runpyVars, moreVars>>

\* process_url, lines 137-144: the override step ends with status ret, which
\* is only logged; process_url returns True.
OverrideDone ==
    /\ opc = "override"
    /\ \E ret \in {0, 1} :
         /\ override_ret' = ret
         /\ opc' = "done" /\ url_ok' = "True"
    /\ UNCHANGED <<scripts, lines, gen_ret, run_ret>>
    /\ UNCHANGED <<batchVars, runpyVars, moreVars>>

OrchNext ==
    \/ ProcessUrlStart
    \/ GenerateDone
    \/ RunDone
    \/ OverrideDone

InitOrch ==
    /\ opc = "start"
    /\ scripts = <<>> /\ lines = <<>>
    /\ gen_ret = -1 /\ run_ret = -1 /\ override_ret = -1
    /\ url_ok = "pending"
    /\ BatchIdle /\ RunIdle /\ MoreIdle

SpecOrch == InitOrch /\ [][OrchNext]_vars

\* The script was started; the generate output has a line with the prefix;
\* it names a file / a recipe.
Started(name) == \E k \in 1..Len(scripts) : scripts[k] = name
HasLine(prefix) == \E k \in 1..Len(lines) : lines[k].tag = prefix
Names(prefix) ==
    \E k \in 1..Len(lines) :
      lines[k].tag = prefix /\ \E m \in 1..Len(lines[k].vals) : lines[k].vals[m] # ""

\* C19: the steps start in the order generate, run, override; run starts only
\* after generate exited 0 and printed a FILENAMES line; override starts only
\* after the run step ended and only when generate printed a RECIPES line;
\* and when recipes were named, the override step follows the run step
\* whatever the exit status of the run step.
C19_StepsOrderedAndGated ==
    /\ \A k \in 1..Len(scripts) : scripts[k] = <<"generate", "run", "override">>[k]
    /\ Len(scripts) <= 3
    /\ Started("run") => (gen_ret = 0 /\ HasLine("FILENAMES:"))
    /\ Started("override") => (run_ret # -1 /\ HasLine("RECIPES:"))
    /\ (Started("run") /\ run_ret # -1 /\ Names("RECIPES:")) =>
         Started("override")

\* The run step exited non-zero and the override step was started after it.
C19_Witness ==
    /\ opc = "done" /\ run_ret = 1
    /\ scripts = <<"generate", "run", "override">>

\* C20: process_url returns True exactly when the generate step exited 0 and
\* named at least one file; the exit statuses of the run step and of the
\* override step do not matter.
C20_SuccessIffGenerated ==
    opc = "done" =>
      /\ url_ok \in {"True", "False"}
      /\ url_ok = "True" <=> (gen_ret = 0 /\ Names("FILENAMES:"))

\* True although the run step and the override step both exited non-zero.
C20_Witness ==
    /\ opc = "done" /\ url_ok = "True"
    /\ run_ret = 1 /\ override_ret = 1

----------------------------------------------------------------------------
(***************************************************************************)
(* tools/orchestrate.py: main() collects the URLs from the command line    *)
(* and from the CSV file, calls process_url for each of them and exits     *)
(* with a status made from the failed count.  setup() and the reading of   *)
(* the CSV file may raise; an exception that leaves main ends the process  *)
(* with status 1, argparse's error with status 2 (pc "aborted").           *)
(***************************************************************************)

\* Bound: the number of rows of the CSV file that carry a URL.
MaxCsvRows == 1

\* Line 181: sys.exit(1 if failed else 0).
MainExitStatusIsCount(f) == f
MainExitStatus(f) == IF f # 0 THEN 1 ELSE 0

InitOrchMain ==
    /\ omain \in
         {[pc |-> "start", has_url |-> u, csv |-> c, rows |-> r, nurls |-> 0,
           i |-> 0, succeeded |-> 0, failed |-> 0, calls |-> <<>>,
           results |-> <<>>, status |-> -1] :
            u \in BOOLEAN, c \in {"none", "unreadable", "ok"},
            r \in 0..MaxCsvRows}
    /\ gen = [pc |-> "idle"]
    /\ api = [pc |-> "idle"]
    /\ OrchIdle /\ BatchIdle /\ RunIdle

\* main, lines 155-169: without a URL and without --csv argparse ends the
\* process with status 2; setup() or open(args.csv) may raise; otherwise urls
\* is the URL of the command line followed by the URLs of the CSV rows.
OMainStart ==
    /\ omain.pc = "start"
    /\ \E setup_raises \in BOOLEAN :
         omain' =
           IF ~omain.has_url /\ omain.csv = "none"
           THEN [omain EXCEPT !.pc = "aborted", !.status = 2]
           ELSE IF setup_raises \/ omain.csv = "unreadable"
           THEN [omain EXCEPT !.pc = "aborted", !.status = 1]
           ELSE [omain EXCEPT
                   !.pc = "loop",
                   !.nurls = (IF omain.has_url THEN 1 ELSE 0)
                             + (IF omain.csv = "ok" THEN omain.rows ELSE 0)]
    /\ UNCHANGED <<batchVars, runpyVars, orchVars, gen, api>>

\* main, lines 170-171: the loop takes the next URL and calls process_url.
OMainCall ==
    /\ omain.pc = "loop" /\ omain.i < omain.nurls
    /\ omain' = [omain EXCEPT !.pc = "process_url", !.i = @ + 1,
                              !.calls = Append(@, omain.i + 1)]
    /\ opc' = "start"
    /\ scripts' = <<>> /\ lines' = <<>>
    /\ gen_ret' = -1 /\ run_ret' = -1 /\ override_ret' = -1
    /\ url_ok' = "pending"
    /\ UNCHANGED <<batchVars, runpyVars, gen, api>>

\* main, lines 171-174: process_url returned; the URL is counted.
OMainCount ==
    /\ omain.pc = "process_url" /\ opc = "done"
    /\ omain' = [omain EXCEPT
                   !.pc = "loop",
                   !.results = Append(@, url_ok),
                   !.succeeded = IF url_ok = "True" THEN @ + 1 ELSE @,
                   !.failed = IF url_ok = "True" THEN @ ELSE @ + 1]
    /\ UNCHANGED <<batchVars, runpyVars, orchVars, gen, api>>

\* main, lines 176-181: after the last URL, the summary and the exit.
OMainExit ==
    /\ omain.pc = "loop" /\ omain.i = omain.nurls
    /\ omain' = [omain EXCEPT !.pc = "exited",
                              !.status = MainExitStatus(omain.failed)]
    /\ UNCHANGED <<batchVars, runpyVars, orchVars, gen, api>>

OrchMainNext ==
    \/ OMainStart
    \/ OMainCall
    \/ OMainCount
    \/ OMainExit
    \/ ProcessUrlStart
    \/ GenerateDone
    \/ RunDone
    \/ OverrideDone

SpecOrchMain == InitOrchMain /\ [][OrchMainNext]_vars

\* Some call of process_url returned False.
SomeUrlFailed ==
    \E k \in 1..Len(omain.results) : omain.results[k] = "False"

\* C21 as stated: main ends having called process_url for every URL, in
\* input order, with succeeded + failed equal to the number of URLs, and its
\* exit status is 1 exactly when some call returned False.
C21_EveryUrlAndStatusIffFailed ==
    omain.pc \in {"exited", "aborted"} =>
      /\ omain.calls = [k \in 1..omain.nurls |-> k]
      /\ omain.succeeded + omain.failed = omain.nurls
      /\ omain.status = 1 <=> SomeUrlFailed

\* C21 amended: once main has its list of URLs it calls process_url for every
\* URL in input order whatever the earlier calls returned, with succeeded +
\* failed equal to the number of URLs processed at every turn of the loop and
\* to the number of URLs at the end, and then exits with status 1 exactly
\* when some call returned False and with 0 otherwise; when main ends before
\* the loop (no URL argument, setup() or the CSV file raising), it has
\* called process_url for no URL and the status is 1 or 2.
C21_EveryUrlProcessedInOrder ==
    /\ omain.pc # "idle"
    /\ omain.calls = [k \in 1..omain.i |-> k]
    /\ omain.pc = "loop" =>
         /\ omain.succeeded + omain.failed = omain.i
         /\ Len(omain.results) = omain.i
    /\ omain.pc = "exited" =>
         /\ omain.i = omain.nurls
         /\ omain.succeeded + omain.failed = omain.nurls
         /\ omain.status = (IF SomeUrlFailed THEN 1 ELSE 0)
    /\ omain.pc = "aborted" =>
         omain.calls = <<>> /\ omain.status \in {1, 2}

\* The first URL failed, the second was processed all the same and succeeded.
C21_Witness ==
    /\ omain.pc = "exited" /\ omain.status = 1
    /\ omain.results = <<"False", "True">>
    /\ omain.calls = <<1, 2>>

----------------------------------------------------------------------------
(***************************************************************************)
(* tools/lib/generate.py: process_urls() vendors the folder of each URL    *)
(* and then, through fetch_dependencies_recursive() and                    *)
(* fetch_dependency(), the folders of its parent recipes and of its        *)
(* external processors.  An upstream folder (org, repo, folder) is a       *)
(* number in Folders; the folder of the shared processors is ProcFolder.   *)
(* The upstream recipes are the environment: each call of                  *)
(* fetch_dependencies_recursive works on the text of one recipe file, and  *)
(* the folder where find_dependency locates its parent (0: no parent, or   *)
(* none found) and whether it refers to an external processor that         *)
(* find_dependency locates are chosen when the text is read; a folder may  *)
(* hold several recipe files, and parents may form a cycle.  maint[f] is   *)
(* the maintainer that get_maintainer derives for the folder.  The         *)
(* identifier of a recipe names the maintainer of its repository, and      *)
(* folders differ in their names.                                          *)
(***************************************************************************)

\* Bounds: upstream recipe folders, URLs of one run, and the depth at which
\* the interpreter gives up a recursion with RecursionError.
NumFolders == 2
MaxGenUrls == 2
RecursionLimit == 5

Folders == 1..NumFolders
ProcFolder == NumFolders + 1
Maintainers == {"a", "b"}

\* get_maintainer(None, repo), lines 131-135.
Maintainer(f) == IF f = ProcFolder THEN "p" ELSE gen.maint[f]

\* get_vendor_filename, lines 138-140: "SharedProcessors-<maintainer>" for a
\* processor folder, "<folder name>-<maintainer>" for a recipe folder (name 0:
\* the filename carries no folder name).
VendorFilename(f, is_processor) ==
    IF is_processor
    THEN [prefix |-> "SharedProcessors", name |-> 0, maintainer |-> Maintainer(f)]
    ELSE [prefix |-> "", name |-> f, maintainer |-> Maintainer(f)]

\* Line 617: key = (ctx['org'], ctx['repo'], ctx['app_name']).
UrlKey(f) == <<f>>

\* Line 503: key = (org, repo, folder, dep_type).
DepKey(f, dep_type) == <<f, dep_type>>

\* Lines 503 and 618: key in processed.
InProcessedNever(key, processed) == FALSE
InProcessed(key, processed) == key \in processed

\* fetch_dependency, lines 493-551, as the new state of the run and the
\* truth value of the content it returns.  commit_ok: get_commit found the
\* folder; has_content: the folder holds a recipe whose text could be read.
\* The messages appended to stats['errors'] are left out.
FetchDependency(dep_type, f, current_maintainer, commit_ok, has_content) ==
    LET key == DepKey(f, dep_type)
        is_processor == dep_type = "processor"
        skip_write == current_maintainer # "None"
                      /\ current_maintainer = Maintainer(f)
        content == ~is_processor /\ has_content
        added == [gen EXCEPT !.processed = @ \cup {key}]
    IN  IF InProcessed(key, gen.processed)
        THEN [g |-> gen, content |-> FALSE]
        ELSE IF ~commit_ok
        THEN [g |-> gen, content |-> FALSE]
        ELSE IF skip_write
        THEN [g |-> added, content |-> content]
        ELSE [g |-> [added EXCEPT
                       !.written = Append(@, [f |-> f, type |-> dep_type,
                                              via |-> "dependency"]),
                       !.generated = @ + 1,
                       !.filenames =
                          Append(@, VendorFilename(f, is_processor))],
              content |-> content]

\* A call of fetch_dependencies_recursive for the recipe of folder f: a new
\* frame, or RecursionError at the limit of the interpreter.
Call(g, f) ==
    IF Len(g.stack) >= RecursionLimit
    THEN [g EXCEPT !.pc = "RecursionError"]
    ELSE [g EXCEPT !.stack = Append(@, [f |-> f, at |-> "parent"])]

Top == gen.stack[Len(gen.stack)]

SetTopAt(g, at) == [g EXCEPT !.stack[Len(gen.stack)].at = at]

InitGen ==
    /\ gen \in
         {[pc |-> "loop", urls |-> u, maint |-> ma, i |-> 0,
           processed |-> {}, generated |-> 0,
           skipped |-> 0, filenames |-> <<>>,
           written |-> <<>>, stack |-> <<>>] :
            u \in UNION {[1..n -> Folders] : n \in 0..MaxGenUrls},
            ma \in [Folders -> Maintainers]}
    /\ omain = [pc |-> "idle"]
    /\ api = [pc |-> "idle"]
    /\ BatchIdle /\ RunIdle /\ OrchIdle

\* process_urls, lines 607-647: one URL of the loop, up to the call of
\* fetch_dependencies_recursive.
GenUrl ==
    /\ gen.pc = "loop" /\ gen.stack = <<>> /\ gen.i < Len(gen.urls)
    /\ \E commit_ok \in BOOLEAN, has_content \in BOOLEAN :
         LET f == gen.urls[gen.i + 1]
             key == UrlKey(f)
             next == [gen EXCEPT !.i = @ + 1]
             vendored ==
               [next EXCEPT
                  !.written = Append(@, [f |-> f, type |-> "recipe",
                                         via |-> "url"]),
                  !.processed = @ \cup {key},
                  !.generated = @ + 1,
                  !.filenames = Append(@, VendorFilename(f, FALSE))]
         IN  gen' =
               IF InProcessed(key, gen.processed)
               THEN [next EXCEPT !.skipped = @ + 1]
               ELSE IF ~commit_ok
               THEN next
               ELSE IF has_content
               THEN Call(vendored, f)
               ELSE vendored
    /\ UNCHANGED <<batchVars, runpyVars, orchVars, omain, api>>

\* fetch_dependencies_recursive, lines 558-582: the parent recipe.  Its
\* folder is fetched with the maintainer of the current recipe, and the call
\* recurses into the parent when fetch_dependency returned its content.
GenParent ==
    /\ gen.pc = "loop" /\ gen.stack # <<>> /\ Top.at = "parent"
    /\ \E p \in 0..NumFolders, commit_ok \in BOOLEAN, has_content \in BOOLEAN :
         LET f == Top.f
             r == FetchDependency("recipe", p, Maintainer(f), commit_ok,
                                  has_content)
         IN  gen' =
               IF p = 0
               THEN SetTopAt(gen, "processors")
               ELSE IF r.content
               THEN Call(SetTopAt(r.g, "processors"), p)
               ELSE SetTopAt(r.g, "processors")
    /\ UNCHANGED <<batchVars, runpyVars, orchVars, omain, api>>

\* fetch_dependencies_recursive, lines 584-593: the external processors.
\* fetch_dependency returns no content for a processor, so the call of line
\* 592 is never made, and the function returns.
GenProcessors ==
    /\ gen.pc = "loop" /\ gen.stack # <<>> /\ Top.at = "processors"
    /\ \E uses_processor \in BOOLEAN, commit_ok \in BOOLEAN :
         LET r == FetchDependency("processor", ProcFolder, "None", commit_ok,
                                  FALSE)
             g == IF uses_processor THEN r.g ELSE gen
         IN  gen' = [g EXCEPT !.stack = SubSeq(@, 1, Len(@) - 1)]
    /\ UNCHANGED <<batchVars, runpyVars, orchVars, omain, api>>

\* process_urls, lines 649-657: after the last URL, the summary.
GenSummary ==
    /\ gen.pc = "loop" /\ gen.stack = <<>> /\ gen.i = Len(gen.urls)
    /\ gen' = [gen EXCEPT !.pc = "done"]
    /\ UNCHANGED <<batchVars, runpyVars, orchVars, omain, api>>

GenNext ==
    \/ GenUrl
    \/ GenParent
    \/ GenProcessors
    \/ GenSummary

SpecGen == InitGen /\ [][GenNext]_vars

\* Keys of recipe folders that fetch_dependency has not yet added.
UnprocessedRecipes ==
    {f \in Folders : DepKey(f, "recipe") \notin gen.processed}

\* Calls of fetch_dependencies_recursive in progress at the given position.
FramesAt(at) == {k \in 1..Len(gen.stack) : gen.stack[k].at = at}

\* What is left to do: URLs, recipe folders not fetched as a dependency,
\* and the steps of the calls in progress.
Remaining ==
    (IF gen.pc = "loop" THEN 1 ELSE 0)
    + 3 * (Len(gen.urls) - gen.i)
    + 3 * Cardinality(UnprocessedRecipes)
    + 2 * Cardinality(FramesAt("parent"))
    + Cardinality(FramesAt("processors"))

\* C25: fetch_dependencies_recursive terminates whatever parents the recipes
\* name, cycles included: every step of the run decreases Remaining, which
\* is never negative; a recursive call is made only right after
\* fetch_dependency added a key that was not in processed, so the depth of
\* the recursion stays within the number of recipe folders and the
\* interpreter's limit is never reached.
C25_RecursionTerminates ==
    /\ [][/\ Remaining' < Remaining
          /\ Len(gen'.stack) > Len(gen.stack) =>
               LET f == gen'.stack[Len(gen'.stack)].f IN
                 \/ /\ gen.stack = <<>>
                    /\ UrlKey(f) \notin gen.processed
                    /\ UrlKey(f) \in gen'.processed
                 \/ /\ gen.stack # <<>>
                    /\ DepKey(f, "recipe") \notin gen.processed
                    /\ DepKey(f, "recipe") \in gen'.processed]_vars
    /\ [](/\ Remaining >= 0
          /\ gen.pc # "RecursionError"
          /\ Len(gen.stack) <= 1 + NumFolders)

\* Two recipes that name each other as parent: the recursion went two calls
\* deep below the URL's and came back, and the run ended.
C25_Witness ==
    /\ gen.pc = "done" /\ gen.urls = <<1>>
    /\ gen.processed = {UrlKey(1), DepKey(2, "recipe"), DepKey(1, "recipe")}

\* The vendor files written for upstream folder f during the run.
WrittenFor(f) == {k \in 1..Len(gen.written) : gen.written[k].f = f}

\* How often a filename is in stats['filenames'].
Times(name) ==
    Cardinality({k \in 1..Len(gen.filenames) : gen.filenames[k] = name})

\* C26: within one run every upstream folder is vendored at most once,
\* whether it is reached as an input URL or as a dependency: one vendor file
\* written, one increment of stats['generated'], its filename at most once
\* in stats['filenames'].
C26_EachFolderVendoredOnce ==
    /\ gen.generated = Len(gen.written)
    /\ \A f \in Folders \cup {ProcFolder} :
         /\ Cardinality(WrittenFor(f)) <= 1
         /\ Times(VendorFilename(f, f = ProcFolder)) <= 1

----------------------------------------------------------------------------
(***************************************************************************)
(* tools/lib/generate.py: GitHubAPI keeps the recursive tree of a          *)
(* repository in _tree_cache under "org/repo@sha".  The public methods     *)
(* get_commit, path_exists, list_dir and find_folder reach it through      *)
(* _get_tree.  A cache key is a number in TreeKeys, the shas of one        *)
(* repository; GitHub's answers are the environment.  Only GithubException *)
(* is caught anywhere in the script: any other exception of the fetch      *)
(* leaves the method and ends the process (pc "crashed").                  *)
(***************************************************************************)

\* Bounds: cache keys, and public calls on one GitHubAPI object.
NumTreeKeys == 2
MaxApiCalls == 2

TreeKeys == 1..NumTreeKeys

\* Lines 208, 220 and 238: self._tree_cache[cache_key] = empty / result.
StoreOnSuccessOnly(cache, key, value) ==
    IF value = "tree" THEN [cache EXCEPT ![key] = value] ELSE cache
Store(cache, key, value) == [cache EXCEPT ![key] = value]

\* The record of one _get_tree call: whether the key was in the cache,
\* whether get_git_tree was called, and the value returned.
Returned(a, key, hit, fetched, value) ==
    [a EXCEPT !.last = Append(@, [key |-> key, hit |-> hit,
                                  fetched |-> fetched, value |-> value]),
              !.asked = IF value = "raised" THEN @ ELSE @ \cup {key}]

\* _get_tree, lines 197-241.  repo_ok: get_repo answers when the repository
\* is not in _repo_cache; out: what get_git_tree does.
GetTree(a, key, repo_ok, out) ==
    IF a.tree_cache[key] # "none"
    THEN Returned(a, key, TRUE, FALSE, a.tree_cache[key])
    ELSE IF ~a.repo_cached /\ ~repo_ok
    THEN Returned([a EXCEPT !.tree_cache = Store(@, key, "empty")],
                  key, FALSE, FALSE, "empty")
    ELSE LET b == [a EXCEPT !.repo_cached = TRUE,
                            !.fetches[key] = @ + 1]
         IN  CASE out = "tree" ->
                    Returned([b EXCEPT !.tree_cache = Store(@, key, "tree")],
                             key, FALSE, TRUE, "tree")
               [] out = "GithubException" ->
                    Returned([b EXCEPT !.tree_cache = Store(@, key, "empty")],
                             key, FALSE, TRUE, "empty")
               [] OTHER ->
                    Returned([b EXCEPT !.pc = "crashed"],
                             key, FALSE, TRUE, "raised")

\* What get_git_tree may do.
TreeOutcomes == {"tree", "GithubException", "raise"}

\* A public method starts: the record of the previous one is dropped.
Enter(op) ==
    [api EXCEPT !.op = op, !.ncalls = @ + 1, !.last = <<>>]

\* The loop over two branches that get_commit (lines 273-281) and
\* find_folder (lines 328-405) share: get_branch gives the sha of a branch
\* (0: GithubException, the branch is skipped), _get_tree gives its tree, and
\* the method returns at the first branch when it finds what it looks for,
\* which it cannot in an empty tree.
TwoBranches(a, sha1, out1, found1, sha2, out2) ==
    LET a1 == IF sha1 = 0 THEN a ELSE GetTree(a, sha1, TRUE, out1)
        done == \/ a1.pc = "crashed"
                \/ sha1 # 0 /\ found1 /\ a1.tree_cache[sha1] = "tree"
    IN  IF done \/ sha2 = 0 THEN a1 ELSE GetTree(a1, sha2, TRUE, out2)

InitApi ==
    /\ api = [pc |-> "ready", op |-> "none", ncalls |-> 0,
              repo_cached |-> FALSE,
              tree_cache |-> [k \in TreeKeys |-> "none"],
              fetches |-> [k \in TreeKeys |-> 0],
              asked |-> {}, last |-> <<>>]
    /\ omain = [pc |-> "idle"]
    /\ gen = [pc |-> "idle"]
    /\ BatchIdle /\ RunIdle /\ OrchIdle

\* path_exists, lines 302-305.
ApiPathExists ==
    /\ api.pc = "ready" /\ api.ncalls < MaxApiCalls
    /\ \E key \in TreeKeys, repo_ok \in BOOLEAN, out \in TreeOutcomes :
         api' = GetTree(Enter("path_exists"), key, repo_ok, out)
    /\ UNCHANGED <<batchVars, runpyVars, orchVars, omain, gen>>

\* list_dir, lines 307-319.
ApiListDir ==
    /\ api.pc = "ready" /\ api.ncalls < MaxApiCalls
    /\ \E key \in TreeKeys, repo_ok \in BOOLEAN, out \in TreeOutcomes :
         api' = GetTree(Enter("list_dir"), key, repo_ok, out)
    /\ UNCHANGED <<batchVars, runpyVars, orchVars, omain, gen>>

\* get_commit, lines 268-284: without the repository it returns None at
\* once; _repo caches the repository only when get_repo answers.
ApiGetCommit ==
    /\ api.pc = "ready" /\ api.ncalls < MaxApiCalls
    /\ \E repo_ok \in BOOLEAN, sha1 \in 0..NumTreeKeys, sha2 \in 0..NumTreeKeys,
          out1 \in TreeOutcomes, out2 \in TreeOutcomes, found1 \in BOOLEAN :
         LET a == Enter("get_commit") IN
           api' = IF ~api.repo_cached /\ ~repo_ok
                  THEN a
                  ELSE TwoBranches([a EXCEPT !.repo_cached = TRUE],
                                   sha1, out1, found1, sha2, out2)
    /\ UNCHANGED <<batchVars, runpyVars, orchVars, omain, gen>>

\* find_folder, lines 321-408.
ApiFindFolder ==
    /\ api.pc = "ready" /\ api.ncalls < MaxApiCalls
    /\ \E repo_ok \in BOOLEAN, sha1 \in 0..NumTreeKeys, sha2 \in 0..NumTreeKeys,
          out1 \in TreeOutcomes, out2 \in TreeOutcomes, found1 \in BOOLEAN :
         LET a == Enter("find_folder") IN
           api' = IF ~api.repo_cached /\ ~repo_ok
                  THEN a
                  ELSE TwoBranches([a EXCEPT !.repo_cached = TRUE],
                                   sha1, out1, found1, sha2, out2)
    /\ UNCHANGED <<batchVars, runpyVars, orchVars, omain, gen>>

ApiNext ==
    \/ ApiGetCommit
    \/ ApiPathExists
    \/ ApiListDir
    \/ ApiFindFolder

SpecApi == InitApi /\ [][ApiNext]_vars

\* C27: over any sequence of get_commit, path_exists, list_dir and find_folder
\* calls get_git_tree is called at most once per key; a key for which
\* _get_tree has returned, with a tree or after a failure, is in the cache,
\* its cached value never changes, and every later _get_tree call for it
\* returns that value without calling get_git_tree.
C27_TreeFetchedOncePerKey ==
    /\ [](\A k \in TreeKeys :
            /\ api.fetches[k] <= 1
            /\ k \in api.asked <=> api.tree_cache[k] # "none")
    /\ [][\A k \in api.asked :
            /\ api'.tree_cache[k] = api.tree_cache[k]
            /\ api'.fetches[k] = api.fetches[k]
            /\ \A j \in 1..Len(api'.last) :
                 api'.last[j].key = k =>
                   /\ api'.last[j].hit /\ ~api'.last[j].fetched
                   /\ api'.last[j].value = api.tree_cache[k]]_vars

\* The fetch of a tree failed with GithubException; a later method asked for
\* the same key and got the cached empty tree without a second fetch.
C27_Witness ==
    /\ api.ncalls >= 2 /\ Len(api.last) >= 1
    /\ api.last[1].hit /\ api.last[1].value = "empty"
    /\ api.fetches[api.last[1].key] = 1
====
